---- MODULE Spec2Model ----
(***************************************************************************)
(* Boot/wake state machine of the ESP32 mailbox door sensor                *)
(* (src/main/main.ino).  One boot cycle is one execution of setup(): it    *)
(* samples the reed switch, compares the sample with the value retained in *)
(* RTC memory, possibly connects to WiFi/MQTT and publishes, arms a wake   *)
(* source and enters deep sleep.  Deep sleep resets everything except the  *)
(* four RTC_DATA_ATTR variables.                                           *)
(*                                                                         *)
(* Time is millis(), in milliseconds since the boot; only delay() advances *)
(* it.  A wait loop whose clock reaches MaxClock is cut off; the program's *)
(* own bounds keep every boot below it.  The sensor line is the            *)
(* environment variable pin, which DoorMove toggles at any moment.  The    *)
(* PubSubClient and WiFi libraries are represented by two flags (wifi,     *)
(* mqtt); a publish is recorded with the line that issued it and whether   *)
(* the client was connected at that time.  Serial output and the formatted *)
(* string total_time_awake are left out: nothing reads them.               *)
(***************************************************************************)
EXTENDS Integers, Sequences, FiniteSets, TLC

VARIABLES
    bootCount,          \* RTC: number of boots
    stuckbootCount,     \* RTC: stuck counter
    last_doorState,     \* RTC: door level stored at the last suspend
    time_awake_millis,  \* RTC: accumulated awake time (32-bit signed)
    currentMillis,      \* millis() at the start of setup()
    doorState,          \* the sensor reading setup() works with
    start_time,         \* millis() at the start of the latest setup_wifi()
    count,              \* iterations of the WiFi wait loop
    retry,              \* failed MQTT connects of the latest reconnect()
    n,                  \* iterations of the open-door loop
    pc,                 \* position of setup()
    ret,                \* where connect_WIFI_MQTT() returns to
    now,                \* millis()
    wakeSrc,            \* wake sources enabled in this boot
    wifi,               \* WiFi.status() = WL_CONNECTED
    mqtt,               \* client.connected()
    pin,                \* level of the sensor line
    moves,              \* number of changes of the sensor line so far
    pubs,               \* client.publish calls of this boot, in order
    entry,              \* stuckbootCount and last_doorState as this boot found them
    current,            \* the sample taken at line 266 of this boot
    wakeCause           \* what started this boot

vars == <<bootCount, stuckbootCount, last_doorState, time_awake_millis,
          currentMillis, doorState, start_time, count, retry, n, pc, ret, now,
          wakeSrc, wifi, mqtt, pin, moves, pubs, entry, current, wakeCause>>

rtc == <<bootCount, stuckbootCount, last_doorState, time_awake_millis>>

-----------------------------------------------------------------------------
(* Program constants *)

MAX_OPENDOOR_TIME == 30000

MAX_STUCK_BOOT_COUNT == 5

LOW == 0

HIGH == 1

GPIO_DOOR_CLOSED_STATE == LOW

GPIO_DOOR_OPEN_STATE == HIGH

UNKNOWN_DOOR_STATE == -99

BOOT_DELAY == 50

WIFI_POLL_DELAY == 25

MQTT_RETRY_DELAY == 3000

SETTLE_DELAY == 5000

LOOP_DELAY == 50

DISCONNECT_DELAY == 250

INT32_MAX == 2147483647

(* Configuration of wifi_info.h, which the repository does not ship: any   *)
(* values are possible, small ones are chosen.                             *)
wifi_timeout == 25

mqtt_max_retries == 1

(* Bounds of the exploration *)
MaxBoots == 9

MaxDoorMoves == 2

EarlyIters == 2

LateIters == 1

MaxClock == 50000

MaxLoopIters == 700

(* A device that has been running for a long time: the boot count and the   *)
(* accumulated awake time from which the second exploration starts.  Every  *)
(* delay of the program is a multiple of 25 ms and a boot of the escalated   *)
(* unchanged branch adds 0 ms, so such totals are reached.                   *)
LongRunBoots == 500000

LongRunAwake == 2147480000

TIMER_SLEEP_MICROSECS == 10 * 1000000

\* esp_sleep_enable_ext0_wakeup(GPIO_INPUT_IO_TRIGGER, level)
Ext0(level) == <<"ext0", level>>

\* esp_sleep_enable_timer_wakeup(TIMER_SLEEP_MICROSECS)
TIMER == <<"timer", TIMER_SLEEP_MICROSECS>>

\* the edge trigger on the open level
EXT0 == Ext0(GPIO_DOOR_OPEN_STATE)

MSG_OPEN == "message_door_open"

MSG_CLOSED == "message_door_closed"

MSG_STUCK == "message_door_stuck"

MSG_STATE == "doorState"

-----------------------------------------------------------------------------
(* Helpers *)

\* long is 32 bits on the ESP32: a + b for b >= 0 as stored in a long, wrapping
\* past INT32_MAX to the negative values.
Add32(a, b) ==
    IF a > 0 /\ b > INT32_MAX - a
    THEN (a - INT32_MAX - 1) + (b - INT32_MAX - 1)
    ELSE a + b

\* line 280 with the sentinel taken for "no change"
DoorUnchanged_sentinel(last, d) == last = d \/ last = UNKNOWN_DOOR_STATE

\* line 280: the comparison that classifies the boot
DoorUnchanged(last, d) == last = d

\* lines 284 and 304 with >= for >
StuckExceeded_ge(c) == c >= MAX_STUCK_BOOT_COUNT

\* lines 284 and 304
StuckExceeded(c) == c > MAX_STUCK_BOOT_COUNT

\* line 134
WifiTimedOut(elapsed) == elapsed > wifi_timeout

\* line 181 without the retry limit
RetriesExhausted_never(r) == FALSE

\* line 181
RetriesExhausted(r) == r > mqtt_max_retries

\* line 362 with >= for >
OpenTimedOut_ge(elapsed) == elapsed >= MAX_OPENDOOR_TIME

\* line 362
OpenTimedOut(elapsed) == elapsed > MAX_OPENDOOR_TIME

\* line 324 with the test inverted
DoorIsOpen_inverted(d) == d = GPIO_DOOR_CLOSED_STATE

\* line 324
DoorIsOpen(d) == d # GPIO_DOOR_CLOSED_STATE

\* client.publish(topic, msg, false) at the given line: the call is recorded
\* together with whether the client was connected (PubSubClient sends nothing
\* and returns false when it is not).
Publish(log, msg, line) ==
    Append(log, [msg |-> msg, line |-> line, conn |-> mqtt])

\* lines 341-369: one evaluation of the loop condition and, when the door
\* still reads Open, of the loop body, on the loop's state s (counter n,
\* reading doorState, clock now).  The sensor reads Open before iteration k and
\* Closed from iteration k on (k = 0: it never reads Closed).  done: the loop
\* was left, by its condition or by the break; timedOut: by the break, after
\* the stuck publish of line 365.
LoopIter(s, st, k) ==
    IF s.done THEN s
    ELSE IF s.doorState # GPIO_DOOR_OPEN_STATE THEN [s EXCEPT !.done = TRUE]
    ELSE LET n1 == s.n + 1
             ds1 == IF k # 0 /\ n1 >= k THEN LOW ELSE HIGH
             elapsed_time == s.now - st
         IN  [n |-> n1, doorState |-> ds1, now |-> s.now + LOOP_DELAY,
              timedOut |-> OpenTimedOut(elapsed_time),
              done |-> OpenTimedOut(elapsed_time),
              elapsed |-> elapsed_time]

\* m evaluations of LoopIter, one after the other: the first half of them,
\* then the rest from the state h they lead to
RECURSIVE Iterate(_, _, _, _)
Iterate(s, m, st, k) ==
    IF m = 0 \/ s.done THEN s
    ELSE IF m = 1 THEN LoopIter(s, st, k)
    ELSE CHOOSE r \in {Iterate(h, m - (m \div 2), st, k) :
                          h \in {Iterate(s, m \div 2, st, k)}} : TRUE

\* lines 340-369: the open-door loop entered with counter nn, reading ds and
\* clock t, within MaxLoopIters evaluations of its condition
OpenDoorLoop(nn, ds, t, st, k) ==
    Iterate([n |-> nn, doorState |-> ds, now |-> t, timedOut |-> FALSE,
             done |-> FALSE, elapsed |-> 0], MaxLoopIters, st, k)

\* The first iteration, counted from the loop's entry at clock t, whose elapsed
\* time exceeds MAX_OPENDOOR_TIME
TimeoutIter(t, st) ==
    IF t - st > MAX_OPENDOOR_TIME THEN 1
    ELSE ((MAX_OPENDOOR_TIME - (t - st)) \div LOOP_DELAY) + 2

\* The iterations at which the environment may close the door during the loop:
\* one of the first EarlyIters, or one around TimeoutIter (0: it stays open).
CloseIters(t, st) ==
    {0} \cup (1..EarlyIters)
        \cup {k \in (TimeoutIter(t, st) - LateIters)..(TimeoutIter(t, st) + LateIters) : k >= 1}

-----------------------------------------------------------------------------
(* Initial state: power-on, RTC memory as initialised at lines 90-93 *)

Init ==
    /\ bootCount = 0
    /\ stuckbootCount = 0
    /\ last_doorState = UNKNOWN_DOOR_STATE
    /\ time_awake_millis = 0
    /\ currentMillis = 0
    /\ doorState = LOW
    /\ start_time = 0
    /\ count = 0
    /\ retry = 0
    /\ n = 0
    /\ pc = "boot"
    /\ ret = "none"
    /\ now = 0
    /\ wakeSrc = {}
    /\ wifi = FALSE
    /\ mqtt = FALSE
    /\ pin \in {LOW, HIGH}
    /\ moves = 0
    /\ pubs = <<>>
    /\ entry = [stuck |-> 0, last |-> UNKNOWN_DOOR_STATE]
    /\ current = UNKNOWN_DOOR_STATE
    /\ wakeCause = "poweron"

-----------------------------------------------------------------------------
(* setup(), lines 251-398 *)

\* lines 253-268 with the sample also stored into last_doorState
setup_begin_stores_last ==
    /\ pc = "boot"
    /\ now' = now + BOOT_DELAY
    /\ currentMillis' = now + BOOT_DELAY
    /\ doorState' = pin
    /\ current' = pin
    /\ last_doorState' = pin
    /\ bootCount' = bootCount + 1
    /\ pc' = "evaluate"
    /\ UNCHANGED <<stuckbootCount, time_awake_millis, start_time, count, retry,
                   n, ret, wakeSrc, wifi, mqtt, pin, moves, pubs, entry,
                   wakeCause>>

\* lines 253-268: Serial.begin, delay(50), start of the awake timer, pin mode,
\* the boot sample, ++bootCount
setup_begin ==
    /\ pc = "boot"
    /\ now' = now + BOOT_DELAY
    /\ currentMillis' = now + BOOT_DELAY
    /\ doorState' = pin
    /\ current' = pin
    /\ bootCount' = bootCount + 1
    /\ pc' = "evaluate"
    /\ UNCHANGED <<stuckbootCount, last_doorState, time_awake_millis, start_time,
                   count, retry, n, ret, wakeSrc, wifi, mqtt, pin, moves, pubs,
                   entry, wakeCause>>

\* lines 280-300 without the call of esp32_sleep() at line 299: after the
\* settle delay setup() runs on to line 304
unchanged_branch_falls_through ==
    /\ pc = "evaluate"
    /\ DoorUnchanged(last_doorState, doorState)
    /\ stuckbootCount' = stuckbootCount + 1
    /\ IF StuckExceeded(stuckbootCount + 1)
       THEN /\ pubs' = Publish(pubs, MSG_STUCK, 286)
            /\ wakeSrc' = wakeSrc \cup {TIMER}
            /\ now' = now
            /\ pc' = "sleep"
       ELSE /\ pubs' = pubs
            /\ now' = now + SETTLE_DELAY
            /\ wakeSrc' = wakeSrc \cup {EXT0}
            /\ pc' = "arm"
    /\ UNCHANGED <<bootCount, last_doorState, time_awake_millis, currentMillis,
                   doorState, start_time, count, retry, n, ret, wifi, mqtt, pin,
                   moves, entry, current, wakeCause>>

\* lines 280-300: the sample equals the retained state.  stuckbootCount++, then
\* either the stuck publish and the timer wake source, or the settle delay and
\* the edge trigger; both end in the call of esp32_sleep().
unchanged_branch ==
    /\ pc = "evaluate"
    /\ DoorUnchanged(last_doorState, doorState)
    /\ stuckbootCount' = stuckbootCount + 1
    /\ IF StuckExceeded(stuckbootCount + 1)
       THEN /\ pubs' = Publish(pubs, MSG_STUCK, 286)
            /\ wakeSrc' = wakeSrc \cup {TIMER}
            /\ now' = now
       ELSE /\ pubs' = pubs
            /\ now' = now + SETTLE_DELAY
            /\ wakeSrc' = wakeSrc \cup {EXT0}
    /\ pc' = "sleep"
    /\ UNCHANGED <<bootCount, last_doorState, time_awake_millis, currentMillis,
                   doorState, start_time, count, retry, n, ret, wifi, mqtt, pin,
                   moves, entry, current, wakeCause>>

\* lines 280, 304-307: the sample differs; when the stuck counter is over the
\* threshold the recovery step starts with connect_WIFI_MQTT()
changed_branch ==
    /\ pc = "evaluate"
    /\ ~DoorUnchanged(last_doorState, doorState)
    /\ IF StuckExceeded(stuckbootCount)
       THEN pc' = "setup_wifi" /\ ret' = "recover"
       ELSE pc' = "arm" /\ ret' = ret
    /\ UNCHANGED <<rtc, currentMillis, doorState, start_time, count, retry, n,
                   now, wakeSrc, wifi, mqtt, pin, moves, pubs, entry, current,
                   wakeCause>>

\* lines 309-313: connect_WIFI_MQTT() returned (it always returns true): the
\* two recovery publishes and the reset of the stuck counter
recover ==
    /\ pc = "recover"
    /\ pubs' = Publish(Publish(pubs, MSG_STATE, 309), MSG_CLOSED, 310)
    /\ stuckbootCount' = 0
    /\ pc' = "arm"
    /\ UNCHANGED <<bootCount, last_doorState, time_awake_millis, currentMillis,
                   doorState, start_time, count, retry, n, ret, now, wakeSrc,
                   wifi, mqtt, pin, moves, entry, current, wakeCause>>

\* lines 318-328 and 390-391: the edge trigger on the open level is enabled;
\* an open door leads to connect_WIFI_MQTT(), a closed one to the final step
arm_edge_wakeup ==
    /\ pc = "arm"
    /\ wakeSrc' = wakeSrc \cup {EXT0}
    /\ IF DoorIsOpen(doorState)
       THEN pc' = "setup_wifi" /\ ret' = "opened"
       ELSE pc' = "final" /\ ret' = ret
    /\ UNCHANGED <<rtc, currentMillis, doorState, start_time, count, retry, n,
                   now, wifi, mqtt, pin, moves, pubs, entry, current, wakeCause>>

\* lines 331-340: the two publishes of the opening, loop counter n = 0
opened ==
    /\ pc = "opened"
    /\ pubs' = Publish(Publish(pubs, MSG_STATE, 331), MSG_OPEN, 332)
    /\ n' = 0
    /\ pc' = "door_loop"
    /\ UNCHANGED <<rtc, currentMillis, doorState, start_time, count, retry, ret,
                   now, wakeSrc, wifi, mqtt, pin, moves, entry, current, wakeCause>>

\* lines 340-369: the open-door loop.  The environment chooses the iteration k
\* at which the sensor first reads Closed (0: never); a line that is already
\* low reads Closed at the first iteration.
door_loop ==
    /\ pc = "door_loop"
    /\ \E k \in (IF pin = LOW THEN {1} ELSE CloseIters(now, start_time)) :
       \E r \in {OpenDoorLoop(n, doorState, now, start_time, k)} :
          /\ r.done
          /\ pin = r.doorState \/ moves < MaxDoorMoves
          /\ n' = r.n
          /\ doorState' = r.doorState
          /\ now' = r.now
          /\ pin' = r.doorState
          /\ moves' = IF pin = r.doorState THEN moves ELSE moves + 1
          /\ pubs' = IF r.timedOut THEN Publish(pubs, MSG_STUCK, 365) ELSE pubs
    /\ pc' = "after_loop"
    /\ UNCHANGED <<rtc, currentMillis, start_time, count, retry, ret, wakeSrc,
                   wifi, mqtt, entry, current, wakeCause>>

\* lines 372-386 without client.disconnect() and WiFi.disconnect()
after_loop_stays_connected ==
    /\ pc = "after_loop"
    /\ now' = now + DISCONNECT_DELAY
    /\ pc' = "final"
    /\ UNCHANGED <<rtc, currentMillis, doorState, start_time, count, retry, n,
                   ret, wakeSrc, wifi, mqtt, pin, moves, pubs, entry, current,
                   wakeCause>>

\* lines 372-386: delay(250), client.disconnect(), WiFi.disconnect()
after_loop ==
    /\ pc = "after_loop"
    /\ now' = now + DISCONNECT_DELAY
    /\ mqtt' = FALSE
    /\ wifi' = FALSE
    /\ pc' = "final"
    /\ UNCHANGED <<rtc, currentMillis, doorState, start_time, count, retry, n,
                   ret, wakeSrc, pin, moves, pubs, entry, current, wakeCause>>

\* lines 394-395: the closed publish, then the call of esp32_sleep()
final_publish ==
    /\ pc = "final"
    /\ pubs' = Publish(pubs, MSG_CLOSED, 394)
    /\ pc' = "sleep"
    /\ UNCHANGED <<rtc, currentMillis, doorState, start_time, count, retry, n,
                   ret, now, wakeSrc, wifi, mqtt, pin, moves, entry, current,
                   wakeCause>>

-----------------------------------------------------------------------------
(* connect_WIFI_MQTT(), lines 188-206 *)

\* lines 103-117: start_time = millis(), WiFi.disconnect(), WiFi.begin().
\* Dropping the WiFi link may or may not already show in client.connected().
setup_wifi ==
    /\ pc = "setup_wifi"
    /\ start_time' = now
    /\ wifi' = FALSE
    /\ mqtt' \in {mqtt, FALSE}
    /\ count' = 0
    /\ pc' = "wifi_wait"
    /\ UNCHANGED <<rtc, currentMillis, doorState, retry, n, ret, now, wakeSrc,
                   pin, moves, pubs, entry, current, wakeCause>>

\* lines 119, 146-150, 192-197: WiFi.status() = WL_CONNECTED ends the wait;
\* setServer, and reconnect() is entered when the client is not connected
wifi_connected ==
    /\ pc = "wifi_wait"
    /\ now < MaxClock
    /\ wifi' = TRUE
    /\ IF ~mqtt
       THEN pc' = "reconnect" /\ retry' = 0
       ELSE pc' = ret /\ retry' = retry
    /\ UNCHANGED <<rtc, currentMillis, doorState, start_time, count, n, ret, now,
                   wakeSrc, mqtt, pin, moves, pubs, entry, current, wakeCause>>

\* lines 119-140: WiFi.status() is not WL_CONNECTED: one iteration of the wait
\* loop, delay(25); past wifi_timeout the loop calls esp32_sleep()
wifi_wait ==
    /\ pc = "wifi_wait"
    /\ now < MaxClock
    /\ count' = count + 1
    /\ now' = now + WIFI_POLL_DELAY
    /\ IF WifiTimedOut((now + WIFI_POLL_DELAY) - start_time)
       THEN pc' = "sleep"
       ELSE pc' = "wifi_wait"
    /\ UNCHANGED <<rtc, currentMillis, doorState, start_time, retry, n, ret,
                   wakeSrc, wifi, mqtt, pin, moves, pubs, entry, current, wakeCause>>

\* lines 163-171, 203-205: client.connect() succeeds; client.loop(); return
reconnect_ok ==
    /\ pc = "reconnect"
    /\ now < MaxClock
    /\ mqtt' = TRUE
    /\ pc' = ret
    /\ UNCHANGED <<rtc, currentMillis, doorState, start_time, count, retry, n,
                   ret, now, wakeSrc, wifi, pin, moves, pubs, entry, current,
                   wakeCause>>

\* lines 163-184, 203-205: client.connect() fails: retry++, delay(3000), and
\* reconnect() returns once retry > mqtt_max_retries
reconnect_failed ==
    /\ pc = "reconnect"
    /\ now < MaxClock
    /\ retry' = retry + 1
    /\ now' = now + MQTT_RETRY_DELAY
    /\ IF RetriesExhausted(retry + 1)
       THEN pc' = ret
       ELSE pc' = "reconnect"
    /\ UNCHANGED <<rtc, currentMillis, doorState, start_time, count, n, ret,
                   wakeSrc, wifi, mqtt, pin, moves, pubs, entry, current, wakeCause>>

-----------------------------------------------------------------------------
(* esp32_sleep(), lines 224-246 *)

\* lines 230-234: the awake time is accumulated and the sensor line is read
\* into last_doorState
esp32_sleep ==
    /\ pc = "sleep"
    /\ time_awake_millis' = Add32(time_awake_millis, now - currentMillis)
    /\ last_doorState' = pin
    /\ pc' = "suspend"
    /\ UNCHANGED <<bootCount, stuckbootCount, currentMillis, doorState,
                   start_time, count, retry, n, ret, now, wakeSrc, wifi, mqtt,
                   pin, moves, pubs, entry, current, wakeCause>>

\* line 241: esp_deep_sleep_start() does not return
esp_deep_sleep_start ==
    /\ pc = "suspend"
    /\ pc' = "asleep"
    /\ UNCHANGED <<rtc, currentMillis, doorState, start_time, count, retry, n,
                   ret, now, wakeSrc, wifi, mqtt, pin, moves, pubs, entry,
                   current, wakeCause>>

-----------------------------------------------------------------------------
(* The platform and the environment *)

\* A wake from deep sleep restarts the program: everything but RTC memory is
\* initialised again (lines 95-99) and no wake source is enabled.
Reboot(cause) ==
    /\ pc = "asleep"
    /\ bootCount % LongRunBoots < MaxBoots
    /\ pc' = "boot"
    /\ wakeCause' = cause
    /\ entry' = [stuck |-> stuckbootCount, last |-> last_doorState]
    /\ current' = UNKNOWN_DOOR_STATE
    /\ currentMillis' = 0
    /\ doorState' = LOW
    /\ start_time' = 0
    /\ count' = 0
    /\ retry' = 0
    /\ n' = 0
    /\ ret' = "none"
    /\ now' = 0
    /\ wakeSrc' = {}
    /\ wifi' = FALSE
    /\ mqtt' = FALSE
    /\ pubs' = <<>>
    /\ UNCHANGED <<rtc, pin, moves>>

\* ext0 wake: the sensor line is at the open level
wake_ext0 ==
    /\ \E w \in wakeSrc : w[1] = "ext0" /\ pin = w[2]
    /\ Reboot("ext0")

\* timer wake: TIMER_SLEEP_MICROSECS have passed
wake_timer ==
    /\ TIMER \in wakeSrc
    /\ Reboot("timer")

\* The door opens or closes.
DoorMove ==
    /\ moves < MaxDoorMoves
    /\ pin' = 1 - pin
    /\ moves' = moves + 1
    /\ UNCHANGED <<rtc, currentMillis, doorState, start_time, count, retry, n,
                   pc, ret, now, wakeSrc, wifi, mqtt, pubs, entry, current,
                   wakeCause>>

-----------------------------------------------------------------------------

Step ==
    \/ setup_begin
    \/ unchanged_branch
    \/ changed_branch
    \/ recover
    \/ arm_edge_wakeup
    \/ opened
    \/ door_loop
    \/ after_loop
    \/ final_publish
    \/ setup_wifi
    \/ wifi_connected
    \/ wifi_wait
    \/ reconnect_ok
    \/ reconnect_failed
    \/ esp32_sleep
    \/ esp_deep_sleep_start

Next == Step \/ wake_ext0 \/ wake_timer \/ DoorMove

Spec == Init /\ [][Next]_vars

\* The processor runs setup() to its end: a boot cycle that can take a step
\* takes one.
LiveSpec == Spec /\ WF_vars(Step)

\* The state of a long-running device at the start of a boot: woken by the
\* edge trigger from a sleep entered with the door closed, RTC memory holding
\* LongRunBoots boots and LongRunAwake milliseconds.
LongRunInit ==
    /\ bootCount = LongRunBoots
    /\ stuckbootCount = 0
    /\ last_doorState = GPIO_DOOR_CLOSED_STATE
    /\ time_awake_millis = LongRunAwake
    /\ currentMillis = 0
    /\ doorState = LOW
    /\ start_time = 0
    /\ count = 0
    /\ retry = 0
    /\ n = 0
    /\ pc = "boot"
    /\ ret = "none"
    /\ now = 0
    /\ wakeSrc = {}
    /\ wifi = FALSE
    /\ mqtt = FALSE
    /\ pin = GPIO_DOOR_OPEN_STATE
    /\ moves = 0
    /\ pubs = <<>>
    /\ entry = [stuck |-> 0, last |-> GPIO_DOOR_CLOSED_STATE]
    /\ current = UNKNOWN_DOOR_STATE
    /\ wakeCause = "ext0"

LongRunSpec == LongRunInit /\ [][Next]_vars

TypeOK ==
    /\ pc \in {"boot", "evaluate", "recover", "arm", "opened", "door_loop",
               "after_loop", "final", "setup_wifi", "wifi_wait", "reconnect",
               "sleep", "suspend", "asleep"}
    /\ wakeSrc \subseteq {EXT0, TIMER}
    /\ wakeCause \in {"poweron", "ext0", "timer"}
    /\ pin \in {LOW, HIGH}
    /\ doorState \in {LOW, HIGH}
    /\ now < MaxClock

-----------------------------------------------------------------------------
(* Properties *)

\* positions of setup() after the classification of line 280
Classified == pc \notin {"boot", "evaluate"}

\* the publish calls of this boot that carry msg
Published(msg) == {i \in DOMAIN pubs : pubs[i].msg = msg}

\* the publish calls of this boot issued at the given source line
PublishedAt(line) == {i \in DOMAIN pubs : pubs[i].line = line}

\* this boot found the stuck counter over the threshold and sampled a level
\* that differs from the retained one
RecoveryBoot ==
    /\ entry.stuck > MAX_STUCK_BOOT_COUNT
    /\ current # entry.last

\* C1: a boot that starts with stuckbootCount > MAX_STUCK_BOOT_COUNT and samples
\* a level different from last_doorState enters deep sleep with
\* stuckbootCount = 0 and the edge trigger on the open level as its wake
\* source, on every path to esp32_sleep().
C1_RecoveryResetsCounter ==
    (pc = "asleep" /\ RecoveryBoot)
        => (stuckbootCount = 0 /\ wakeSrc = {EXT0})

\* C2: in a boot whose sample equals the retained last_doorState the stuck
\* counter grows by exactly 1; the boot selects the timer wake source and
\* attempts the stuck publish exactly when the incremented counter is > 5,
\* and selects the edge trigger on the open level otherwise; a boot woken by
\* the timer whose sample still equals last_doorState selects the timer again.
C2_StuckEscalation ==
    (pc \in {"sleep", "suspend", "asleep"} /\ current = entry.last)
        => /\ stuckbootCount = entry.stuck + 1
           /\ (TIMER \in wakeSrc) <=> (stuckbootCount > 5)
           /\ (Published(MSG_STUCK) # {}) <=> (stuckbootCount > 5)
           /\ (stuckbootCount > 5) => wakeSrc = {TIMER}
           /\ (stuckbootCount <= 5) => wakeSrc = {EXT0}
           /\ (wakeCause = "timer") => wakeSrc = {TIMER}

C2_Witness ==
    /\ pc = "asleep"
    /\ current = entry.last
    /\ wakeCause = "timer"
    /\ wakeSrc = {TIMER}
    /\ stuckbootCount = 7

\* C3: whenever deep sleep is entered, exactly one wake source has been
\* enabled in the boot.
C3_OneWakeSource ==
    (pc = "asleep") => (wakeSrc = {EXT0} \/ wakeSrc = {TIMER})

\* C4: every boot cycle reaches deep sleep, whatever the sensor, WiFi and MQTT
\* do, as long as setup() keeps running.
C4_EveryBootSuspends == (pc # "asleep") ~> (pc = "asleep")

\* a boot in which WiFi associated, every MQTT connect failed and the open-door
\* loop ran to its timeout, asleep
C4_Witness ==
    /\ pc = "asleep"
    /\ retry > mqtt_max_retries
    /\ PublishedAt(365) # {}

LoopLeftOpen == pc = "after_loop" /\ doorState = GPIO_DOOR_OPEN_STATE

\* millis() - start_time when the open-door loop was entered: each of its n
\* iterations took one delay(50)
ElapsedAtLoopEntry == (now - n * LOOP_DELAY) - start_time

C7_ClosedExitNoStuck ==
    (/\ pc \in {"after_loop", "final", "sleep", "suspend", "asleep"}
     /\ entry.last = GPIO_DOOR_CLOSED_STATE
     /\ current = GPIO_DOOR_OPEN_STATE
     /\ PublishedAt(332) # {}
     /\ doorState = GPIO_DOOR_CLOSED_STATE)
        => Published(MSG_STUCK) = {}

\* a cold boot (nothing retained) that samples Closed, whose sensor has not
\* moved since power-on, asleep
ScenarioA ==
    /\ pc = "asleep"
    /\ entry = [stuck |-> 0, last |-> UNKNOWN_DOOR_STATE]
    /\ wakeCause = "poweron"
    /\ current = GPIO_DOOR_CLOSED_STATE
    /\ moves = 0

C9_ChangedClosedResets ==
    (pc = "asleep" /\ current # entry.last /\ current = GPIO_DOOR_CLOSED_STATE)
        => stuckbootCount = 0

\* C10: last_doorState changes only in the step of esp32_sleep() that stores
\* the sensor reading, the only program step after it is
\* esp_deep_sleep_start(), which leaves RTC memory as it is, and the next
\* boot's comparison finds the stored value.
C10_LastWrittenOnlyAtSuspend ==
    [][/\ (last_doorState' # last_doorState) => (pc = "sleep" /\ pc' = "suspend")
       /\ (pc = "suspend") => (pc' \in {"suspend", "asleep"} /\ rtc' = rtc)
       /\ (pc = "asleep" /\ pc' = "boot") => (entry'.last = last_doorState)]_vars

C10_Witness ==
    /\ pc = "suspend"
    /\ last_doorState # entry.last
    /\ last_doorState # current

\* C11: a boot that does not select the timer wake source enters deep sleep
\* with last_doorState equal to the sample the boot took at its start and
\* compared with the retained value, whatever the sensor did during the boot,
\* and with the edge trigger on the open level as its wake source.
C11_LastEqualsSample ==
    (pc = "asleep" /\ TIMER \notin wakeSrc)
        => (last_doorState = current /\ wakeSrc = {EXT0})

\* C12 (its second half): in a boot classified as changed whose sample is
\* Closed, no second closed event is published: once the recovery step has
\* published the closed message, the boot publishes no other before suspend.
C12_AtMostOneClosed ==
    (Classified /\ current # entry.last /\ current = GPIO_DOOR_CLOSED_STATE)
        => Cardinality(Published(MSG_CLOSED)) <= 1

\* the opened publish of line 332 has been issued: the open-door loop is
\* about to be entered, running, or was left in this boot
MonitorEntered == PublishedAt(332) # {}

\* C13 as stated: the opened publish and the open-door loop happen only in
\* boots whose retained last_doorState is Closed and whose sample is Open.
C13_MonitorOnlyAfterClosed ==
    MonitorEntered
        => (entry.last = GPIO_DOOR_CLOSED_STATE /\ current = GPIO_DOOR_OPEN_STATE)

\* C13 amended: the opened publish and the open-door loop happen only in
\* boots whose sample is Open and whose retained last_doorState is Closed or
\* Unknown (the sentinel of a cold start); never when it is Open.
C13_MonitorOnlyAfterChange ==
    (MonitorEntered \/ pc \in {"opened", "door_loop", "after_loop"})
        => /\ current = GPIO_DOOR_OPEN_STATE
           /\ entry.last \in {GPIO_DOOR_CLOSED_STATE, UNKNOWN_DOOR_STATE}

C13_Witness ==
    /\ pc = "door_loop"
    /\ MonitorEntered
    /\ entry.last = UNKNOWN_DOOR_STATE

\* the open-door loop was entered and left in this boot
MonitorLeft ==
    /\ MonitorEntered
    /\ pc \in {"after_loop", "final", "sleep", "suspend", "asleep"}

\* C14: once the open-door loop is left, by a Closed reading or by its
\* timeout, the boot performs, in this order and nothing else: the transport
\* is disconnected; time_awake_millis grows by millis() - currentMillis (in
\* the arithmetic of a long); last_doorState is written; deep sleep is entered
\* with the edge trigger on the open level as the only wake source.  The timer
\* wake source is never enabled in such a boot.
C14_AfterLoopOrder ==
    [][MonitorLeft =>
         /\ TIMER \notin wakeSrc
         /\ wakeSrc' = wakeSrc \/ pc = "asleep"
         /\ \/ /\ pc' = pc
               /\ <<rtc, wifi, mqtt, pubs>>' = <<rtc, wifi, mqtt, pubs>>
            \/ /\ pc = "after_loop" /\ pc' = "final"
               /\ ~wifi' /\ ~mqtt'
               /\ rtc' = rtc
            \/ /\ pc = "final" /\ pc' = "sleep"
               /\ ~wifi /\ ~mqtt
               /\ rtc' = rtc
            \/ /\ pc = "sleep" /\ pc' = "suspend"
               /\ ~wifi /\ ~mqtt
               /\ now - currentMillis > 0
               /\ time_awake_millis' = Add32(time_awake_millis, now - currentMillis)
               /\ last_doorState' = pin
               /\ <<bootCount, stuckbootCount>>' = <<bootCount, stuckbootCount>>
            \/ /\ pc = "suspend" /\ pc' = "asleep"
               /\ wakeSrc = {EXT0}
               /\ rtc' = rtc
            \/ /\ pc = "asleep" /\ pc' = "boot"
               /\ rtc' = rtc]_vars

\* a boot whose open-door loop ran to its timeout, asleep
C14_Witness ==
    /\ pc = "asleep"
    /\ MonitorLeft
    /\ PublishedAt(365) # {}
    /\ doorState = GPIO_DOOR_OPEN_STATE
    /\ time_awake_millis > MAX_OPENDOOR_TIME
    /\ wakeSrc = {EXT0}

\* this boot sampled the level it found in last_doorState
UnchangedBoot == Classified /\ current = entry.last

C16_AwakeTimeMonotonic ==
    [][/\ time_awake_millis' >= time_awake_millis
       /\ (time_awake_millis' # time_awake_millis)
             => (pc = "sleep" /\ pc' = "suspend" /\ now - currentMillis >= 0)
      ]_vars

\* the WiFi wait of this boot's latest setup_wifi() ended by its timeout
WifiGaveUp == WifiTimedOut(count * WIFI_POLL_DELAY)

\* stuckbootCount at the suspend of a boot that found retained state e and
\* sampled d, when WiFi associates and MQTT connects
StuckAfter(e, d) ==
    IF d = e.last THEN e.stuck + 1
    ELSE IF e.stuck > MAX_STUCK_BOOT_COUNT THEN 0
    ELSE e.stuck

\* the wake sources of that boot
WakeAfter(e, d) ==
    IF d = e.last /\ e.stuck + 1 > MAX_STUCK_BOOT_COUNT THEN {TIMER} ELSE {EXT0}

\* C17: two boots that start from the same retained state and see the same
\* sensor readings suspend with the same stuckbootCount and the same wake
\* source whatever WiFi and MQTT do, that is: both are determined by the
\* retained state and the sample, and equal what the boot whose telemetry
\* succeeds ends with.  (last_doorState is the sensor reading of line 232 in
\* both.)
C17_TelemetryIndependent ==
    (pc = "asleep")
        => /\ stuckbootCount = StuckAfter(entry, current)
           /\ wakeSrc = WakeAfter(entry, current)

\* the same, for the boots in which no WiFi wait timed out
C17_HoldsWhileWifiUp ==
    (pc = "asleep" /\ ~WifiGaveUp)
        => /\ stuckbootCount = StuckAfter(entry, current)
           /\ wakeSrc = WakeAfter(entry, current)

\* C18 (its safety form): with telemetry succeeding, last_doorState is never
\* committed as Open without an opened event published since the door was
\* last Closed.  A boot that found last_doorState Closed or Unknown and
\* suspends with last_doorState = Open is the boot in which the door was seen
\* to open: no earlier boot can have reported this opening, so this boot has
\* published the opened event.
C18_OpenCommittedOnlyIfReported ==
    (/\ pc = "asleep"
     /\ last_doorState = GPIO_DOOR_OPEN_STATE
     /\ entry.last # GPIO_DOOR_OPEN_STATE
     /\ ~WifiGaveUp /\ retry = 0)
        => Published(MSG_OPEN) # {}

\* C19 (as a property of one boot): a boot woken by the timer that samples
\* Closed, with the door still closed at its suspend, does not select the timer
\* again.  If it does, it has stored last_doorState = Closed next to the timer
\* wake source, and with the sensor reading Closed from then on every later
\* boot finds sample = last_doorState, increments stuckbootCount, attempts the
\* stuck publish and selects the timer: stuckbootCount is never reset.
C19_TimerModeLeftWhenClosed ==
    (/\ pc = "asleep"
     /\ wakeCause = "timer"
     /\ current = GPIO_DOOR_CLOSED_STATE
     /\ pin = GPIO_DOOR_CLOSED_STATE)
        => TIMER \notin wakeSrc

\* C20: a boot that attempts the stuck publish of the unchanged branch (line
\* 286) or selects the timer wake source has sampled Open.
C20_EscalationOnlyWhenOpen ==
    (PublishedAt(286) # {} \/ TIMER \in wakeSrc)
        => current = GPIO_DOOR_OPEN_STATE

\* connect_WIFI_MQTT() has been called in this boot: setup_wifi() stores
\* millis(), which is at least BOOT_DELAY, in start_time
ConnectAttempted == start_time # 0

\* client.disconnect() and WiFi.disconnect() of lines 384-385 have run
Disconnected == MonitorEntered /\ pc \in {"final", "sleep", "suspend", "asleep"}

\* C21: every client.publish call of a boot is issued after
\* connect_WIFI_MQTT() has been called in that boot and before the transport
\* is disconnected.
C21_PublishOnlyWhileConnected ==
    [][(pc # "asleep" /\ pubs' # pubs)
          => (ConnectAttempted /\ ~Disconnected)]_vars

\* C22: whenever a boot has issued a publish of the closed message, the most
\* recent sensor reading of the boot (doorState) is Closed.
C22_ClosedOnlyWhenClosed ==
    (Published(MSG_CLOSED) # {}) => (doorState = GPIO_DOOR_CLOSED_STATE)

====
